---- MODULE Spec2Model ----
(***************************************************************************)
(* Model of src/scrape.py: the date-range generator, the text normaliser,  *)
(* and the scrape() loop that walks the days of a range, parses each       *)
(* rendered page, resolves and downloads one image per card and appends    *)
(* one CSV row per surviving card.                                         *)
(*                                                                         *)
(* Text is a sequence of tokens.  A token is either one character that the *)
(* code treats specially (" ", ",", ";", "-", "/", ".", "?", "_", the      *)
(* non-ASCII code points named "U+...."), the literal run of 13 dashes     *)
(* that scrape() replaces, or a run of ASCII letters/digits ("Pasta").     *)
(***************************************************************************)
EXTENDS Integers, Sequences, FiniteSets, TLC

\* ------------------------------------------------------------------ bounds
MaxDate  == 9     \* dates 1..MaxDate for the generator on its own
MaxDay   == 2     \* dates 1..MaxDay for a scrape() run
MaxCards == 2     \* cards per container in the generated pages
MaxRuns  == 2     \* runs of the program against the same output directory

\* ------------------------------------------------------------------ text
DashRun == "-------------"

NonAscii == {"U+FF0C", "U+037E", "U+00A0", "U+00E4", "U+0308", "U+20AC"}

Punct == {" ", ",", ";", "-", DashRun, "/", ".", "?", "_", ":"}

IsWord(c) == c \notin NonAscii /\ c \notin Punct

\* str.strip() and str.split() work on Unicode whitespace.
PyWhite == {" ", "U+00A0"}

Lower(c) ==
  CASE c = "Mensa" -> "mensa"
    [] c = "MENSA" -> "mensa"
    [] c = "Academica" -> "academica"
    [] c = "Institut" -> "institut"
    [] c = "Hauptgericht" -> "hauptgericht"
    [] c = "Vegan" -> "vegan"
    [] c = "Pasta" -> "pasta"
    [] c = "Salat" -> "salat"
    [] c = "Beilagensalat" -> "beilagensalat"
    [] c = "Regio" -> "regio"
    [] c = "Apfel" -> "apfel"
    [] c = "K" -> "k"
    [] OTHER -> c

RECURSIVE Flatten(_)
Flatten(ss) == IF ss = <<>> THEN <<>> ELSE Head(ss) \o Flatten(Tail(ss))

\* unicodedata.normalize("NFKD", c) for one code point
NFKD(c) ==
  CASE c = "U+FF0C" -> <<",">>
    [] c = "U+037E" -> <<";">>
    [] c = "U+00A0" -> <<" ">>
    [] c = "U+00E4" -> <<"a", "U+0308">>
    [] OTHER -> <<c>>

Normalize(text) == Flatten([i \in DOMAIN text |-> NFKD(text[i])])

\* .encode("ascii", "ignore").decode()
EncodeAsciiIgnore(text) == SelectSeq(text, LAMBDA c : c \notin NonAscii)

\* re.sub(r"\s+", " ", text)
RECURSIVE CollapseWs(_)
CollapseWs(text) ==
  IF text = <<>> THEN <<>>
  ELSE IF Head(text) = " " /\ Len(text) > 1 /\ text[2] = " "
       THEN CollapseWs(Tail(text))
       ELSE <<Head(text)>> \o CollapseWs(Tail(text))

RECURSIVE LStrip(_)
LStrip(text) ==
  IF text # <<>> /\ Head(text) \in PyWhite THEN LStrip(Tail(text)) ELSE text

RECURSIVE RStrip(_)
RStrip(text) ==
  IF text # <<>> /\ text[Len(text)] \in PyWhite
  THEN RStrip(SubSeq(text, 1, Len(text) - 1)) ELSE text

Strip(text) == RStrip(LStrip(text))

squash(text) == Strip(CollapseWs(EncodeAsciiIgnore(Normalize(text))))

\* str.replace(a, b) for a one-token pattern
Replace(text, a, b) == [i \in DOMAIN text |-> IF text[i] = a THEN b ELSE text[i]]

StripDelims(text) == Replace(Replace(text, ",", " "), ";", " ")

RECURSIVE Join(_)
Join(lines) ==
  IF lines = <<>> THEN <<>>
  ELSE IF Len(lines) = 1 THEN lines[1]
  ELSE lines[1] \o <<" ">> \o Join(Tail(lines))

HasDelim(text) == \E i \in DOMAIN text : text[i] \in {",", ";"}

\* ------------------------------------------------------------------ state
VARIABLES
  start, stop, out_dir,     \* the arguments of scrape()
  step, d, genpc, yielded,  \* the daterange() generator and what it yielded
  pc, launched, closeCalls, \* position in scrape(), the browser
  day, hi, ci,              \* loop variables: day, heading index, card index
  rows,                     \* the row list
  files, dirs,              \* the output directory: path -> file, day folders
  site,                     \* the pages the web site serves, day -> document
  run, filesAtStart,        \* run number, the files when this run started
  clean, prevClean,         \* no failure so far in this run / in the one before
  visited, skipped, log     \* per run: days navigated to, days whose goto
                            \* failed, one event per card that was looked at

genVars == <<start, stop, step, d, genpc, yielded>>
scrapeVars == <<out_dir, pc, launched, closeCalls, day, hi, ci, rows, files,
                dirs, site, run, filesAtStart, clean, prevClean, visited,
                skipped, log>>
vars == <<genVars, scrapeVars>>

Abs(n) == IF n < 0 THEN -n ELSE n

\* ------------------------------------------------------------------ daterange
StepForward(a, b) == 1

Step(a, b) == IF a <= b THEN 1 ELSE -1

\* One resumption of the generator: runs to the next yield or to the break.
GenNext ==
  \/ /\ genpc = "new"
     /\ step' = Step(start, stop)
     /\ d' = start
     /\ yielded' = Append(yielded, start)
     /\ genpc' = "suspended"
     /\ UNCHANGED <<start, stop>>
  \/ /\ genpc = "suspended"
     /\ d = stop
     /\ genpc' = "done"
     /\ UNCHANGED <<start, stop, step, d, yielded>>
  \/ /\ genpc = "suspended"
     /\ d # stop
     /\ d' = d + step
     /\ yielded' = Append(yielded, d + step)
     /\ UNCHANGED <<start, stop, step, genpc>>

\* The dates the generator yields from a to b, as the loop computes them.
RECURSIVE DateSeq(_, _)
DateSeq(a, b) ==
  IF a = b THEN <<a>> ELSE <<a>> \o DateSeq(a + Step(a, b), b)

\* ------------------------------------------------------------------ page
\* A document is the sequence of its h2 and div elements in document order;
\* sec is the parent element (elements with the same sec are siblings).  A
\* div carries its anchors; an anchor (card) is a record of the parts of its
\* markup that scrape() reads.

\* re.compile(r"\bMensa\b", re.I) against the heading's string
MatchesMensa(text) == \E i \in DOMAIN text : Lower(text[i]) = "mensa"

\* soup.find_all("h2", string=...): positions of the matching headings
RECURSIVE HeadingsFrom(_, _)
HeadingsFrom(soup, i) ==
  IF i > Len(soup) THEN <<>>
  ELSE (IF soup[i].tag = "h2" /\ MatchesMensa(soup[i].text) THEN <<i>> ELSE <<>>)
       \o HeadingsFrom(soup, i + 1)

FindHeadings(soup) == HeadingsFrom(soup, 1)

\* h2.find_next_sibling("div"): the first later div with the same parent, or 0
NextSiblingDiv(soup, i) ==
  LET later == {j \in DOMAIN soup :
                  j > i /\ soup[j].tag = "div" /\ soup[j].sec = soup[i].sec}
  IN IF later = {} THEN 0 ELSE CHOOSE j \in later : \A k \in later : j <= k

\* h2.find_next("div"): the first div after the heading in document order, or 0
FindNextDiv(soup, i) ==
  LET later == {j \in DOMAIN soup : j > i /\ soup[j].tag = "div"}
  IN IF later = {} THEN 0 ELSE CHOOSE j \in later : \A k \in later : j <= k

\* container.find_all("a", href=True)
FindCards(container) == SelectSeq(container.anchors, LAMBDA a : a.href)

\* squash(h2.get_text()).replace(",", " ").replace(";", " ")
MensaName(h2) == StripDelims(squash(h2.text))

\* re.match(r"^(beilagensalat|regio[- ]?apfel)", ln, re.I)
IsBoilerplate(ln) ==
  /\ ln # <<>>
  /\ \/ Lower(ln[1]) \in {"beilagensalat", "regioapfel"}
     \/ /\ Lower(ln[1]) = "regio"
        /\ Len(ln) >= 3
        /\ ln[2] \in {"-", " "}
        /\ Lower(ln[3]) = "apfel"

\* p_tag.stripped_strings: every string stripped, the empty ones left out
StrippedStrings(strings) ==
  SelectSeq([i \in DOMAIN strings |-> Strip(strings[i])], LAMBDA s : s # <<>>)

DescLines(card) ==
  SelectSeq(StrippedStrings(card.p.strings), LAMBDA ln : ~IsBoilerplate(ln))

Description(lines) ==
  squash(StripDelims(Replace(Join(lines), DashRun, " ")))

\* first div.inline-flex with text, else the default
Diet(card) ==
  LET texts == StrippedStrings(card.badges)
  IN StripDelims(IF texts # <<>> THEN texts[1]
                 ELSE <<"Nicht", "-", "vegetarisch">>)

DishType(card) ==
  StripDelims(IF card.spans # <<>> THEN Strip(card.spans[1]) ELSE <<"meal">>)

\* s.split(",")[0]
RECURSIVE BeforeComma(_)
BeforeComma(text) ==
  IF text = <<>> \/ Head(text) = "," THEN <<>>
  ELSE <<Head(text)>> \o BeforeComma(Tail(text))

\* s.split()[0] of a text that has a first word
RECURSIVE FirstWord(_)
FirstWord(text) ==
  IF text = <<>> \/ Head(text) \in PyWhite THEN <<>>
  ELSE <<Head(text)>> \o FirstWord(Tail(text))

\* Step 4 of the card: [raises, url]; raises is the IndexError of
\* split()[0] on a srcset whose first entry is blank; url = <<>> is "no URL".
ImgUrl(card) ==
  LET img == card.img
      first == LStrip(BeforeComma(img.srcset))
      useSet == img.has /\ img.src = <<>> /\ img.datasrc = <<>> /\ img.srcset # <<>>
      fromImg == IF ~img.has THEN <<>>
                 ELSE IF img.src # <<>> THEN img.src
                 ELSE IF img.datasrc # <<>> THEN img.datasrc
                 ELSE IF img.srcset # <<>> THEN FirstWord(first)
                 ELSE <<>>
      fromBg == IF card.bg.kind = "url" THEN card.bg.url ELSE <<>>
  IN [raises |-> useSet /\ first = <<>>,
      url |-> IF fromImg # <<>> THEN fromImg ELSE fromBg]

Host == "https://mensa.fachschaft.tf"

\* urljoin(BASE, url) for a URL of this site
UrlJoin(url) == <<Host>> \o (IF Head(url) = "/" THEN url ELSE <<"/">> \o url)

RECURSIVE BeforeQuery(_)
BeforeQuery(text) ==
  IF text = <<>> \/ Head(text) = "?" THEN <<>>
  ELSE <<Head(text)>> \o BeforeQuery(Tail(text))

\* urlparse(url).path
UrlPath(url) == BeforeQuery(Tail(url))

\* Path(path).suffix
Suffix(path) ==
  LET slashes == {i \in DOMAIN path : path[i] = "/"}
      from == IF slashes = {} THEN 1
              ELSE 1 + CHOOSE i \in slashes : \A k \in slashes : k <= i
      dots == {i \in from..Len(path) : path[i] = "."}
      last == CHOOSE i \in dots : \A k \in dots : k <= i
  IN IF dots = {} THEN <<>>
     ELSE IF last = from \/ last = Len(path) THEN <<>>
     ELSE SubSeq(path, last, Len(path))

Ext(url) ==
  LET s == Suffix(UrlPath(url)) IN IF s # <<>> THEN s ELSE <<".", "jpg">>

RECURSIVE CollapseHyphens(_)
CollapseHyphens(text) ==
  IF text = <<>> THEN <<>>
  ELSE IF Head(text) = "-" /\ Len(text) > 1 /\ text[2] = "-"
       THEN CollapseHyphens(Tail(text))
       ELSE <<Head(text)>> \o CollapseHyphens(Tail(text))

RECURSIVE StripHyphens(_)
StripHyphens(text) ==
  IF text # <<>> /\ Head(text) = "-" THEN StripHyphens(Tail(text))
  ELSE IF text # <<>> /\ text[Len(text)] = "-"
       THEN StripHyphens(SubSeq(text, 1, Len(text) - 1))
       ELSE text

\* slugify(text): transliterate, lower-case, every run of other characters
\* becomes one hyphen, no hyphen at either end
SlugToken(c) ==
  CASE c = "U+00E4" -> <<"a">>
    [] c = "U+20AC" -> <<"eur">>
    [] c = "U+0308" -> <<>>
    [] OTHER -> IF IsWord(c) THEN <<Lower(c)>> ELSE <<"-">>

Slugify(text) ==
  StripHyphens(CollapseHyphens(Flatten([i \in DOMAIN text |-> SlugToken(text[i])])))

\* day.isoformat()
IsoFormat(dt) == <<"2025", "-", "06", "-", ToString(dt)>>

FileName(mensa, dish_type, url) ==
  Slugify(mensa) \o <<"_">> \o Slugify(dish_type) \o Ext(url)

FilePath(dir, dt, fname) == dir \o <<"/">> \o IsoFormat(dt) \o <<"/">> \o fname

\* ------------------------------------------------------------------ inputs
JpgUrl == <<"/", "img", "/", "pasta", ".", "jpg">>
PngUrl == <<"/", "img", "/", "pasta", ".", "png">>

NoImg == [has |-> FALSE, src |-> <<>>, datasrc |-> <<>>, srcset |-> <<>>]
NoBg == [kind |-> "absent", url |-> <<>>]

\* A typical card: two description lines, one of them
\* boilerplate, a diet badge, a type label and an image with a src.
BaseCard ==
  [href |-> TRUE,
   p |-> [has |-> TRUE,
          strings |-> << <<"Pasta">>, <<" ", "Beilagensalat", " ", "optional">> >>],
   badges |-> << <<"Vegan">> >>,
   spans |-> << <<"Hauptgericht">> >>,
   img |-> [has |-> TRUE, src |-> JpgUrl, datasrc |-> <<>>, srcset |-> <<>>],
   bg |-> NoBg]

PngCard == [BaseCard EXCEPT !.img.src = PngUrl,
                            !.p.strings = << <<"Salat">> >>]

\* Description blocks: none, boilerplate only, delimiters only, non-ASCII
\* with ASCII and full-width delimiters.
DescCards ==
  { [BaseCard EXCEPT !.p = [has |-> FALSE, strings |-> <<>>]],
    [BaseCard EXCEPT !.p.strings = << <<"Regio", "-", "Apfel">>, <<"U+00A0">> >>],
    [BaseCard EXCEPT !.p.strings = << <<",">>, <<DashRun>>, <<"U+20AC">> >>],
    [BaseCard EXCEPT !.p.strings =
       << <<"Pasta", "U+FF0C", "Salat", ",", "U+00A0", "K", "U+00E4", "se", ";">> >>] }

BlankSrcsetCard == [BaseCard EXCEPT !.img.src = <<>>, !.img.srcset = <<" ">>]

NoImageCard == [BaseCard EXCEPT !.img = NoImg]

\* Image markup: lazy-load attribute, source sets (a usable one, a blank
\* one), a CSS background with and without a URL, no image at all.
ImgCards ==
  { [BaseCard EXCEPT !.img.src = <<>>,
                     !.img.datasrc = <<"/", "img", "/", "a", ".", "j", ",", "pg">>],
    [BaseCard EXCEPT !.img.src = <<>>,
                     !.img.srcset = <<" ", "img", "/", "c", ".", "jpg", " ", "2x",
                                      ",", "img", "/", "d", ".", "jpg">>],
    BlankSrcsetCard,
    [BaseCard EXCEPT !.img = NoImg,
                     !.bg = [kind |-> "url",
                             url |-> <<"/", "img", "/", "bg", "?", "v", ".", "2">>]],
    [BaseCard EXCEPT !.img = NoImg, !.bg = [kind |-> "nourl", url |-> <<>>]],
    NoImageCard }

\* Badges and labels: absent (defaults), blank, with delimiters; no href.
TagCards ==
  { [BaseCard EXCEPT !.badges = <<>>, !.spans = <<>>],
    [BaseCard EXCEPT !.badges = << <<" ">>, <<"Vegan", ",", "U+FF0C", "Bio">> >>,
                     !.spans = << <<" ", "Haupt", ";", "gericht">> >>],
    [BaseCard EXCEPT !.href = FALSE] }

Cards == {BaseCard, PngCard} \cup DescCards \cup ImgCards \cup TagCards

H2(sec, text) == [tag |-> "h2", sec |-> sec, text |-> text, anchors |-> <<>>]
Div(sec, anchors) == [tag |-> "div", sec |-> sec, text |-> <<>>, anchors |-> anchors]

MensaA == <<"Mensa", " ", "Academica">>
MensaB == <<" ", "MENSA", ",", " ", "Institut", "U+00A0">>

RECURSIVE SeqsOfLen(_, _)
SeqsOfLen(S, n) ==
  IF n = 0 THEN {<<>>}
  ELSE {Append(q, x) : q \in SeqsOfLen(S, n - 1), x \in S}

\* One cafeteria, one container, one card of any kind.
SingleCardPages == {<<H2(1, MensaA), Div(1, <<c>>)>> : c \in Cards}

\* One cafeteria whose container holds several cards of the same type.
PairPages ==
  UNION {{<<H2(1, MensaA), Div(1, cs)>> : cs \in SeqsOfLen({BaseCard, PngCard}, n)} :
           n \in 2..MaxCards}

\* Page structures: no element, a heading without any container, a heading
\* that does not name a cafeteria, a heading whose parent holds no
\* container followed by another parent's heading and container, and two
\* cafeterias under one parent.
StructurePages ==
  { <<>>,
    <<H2(1, MensaA)>>,
    <<H2(1, <<"Speiseplan">>), Div(1, <<BaseCard>>)>>,
    <<H2(1, MensaA), H2(2, MensaB), Div(2, <<BaseCard>>)>>,
    <<H2(1, MensaA), Div(1, <<BaseCard>>), H2(1, MensaB), Div(1, <<BaseCard>>)>> }

Pages == SingleCardPages \cup PairPages \cup StructurePages

\* The pages of a site whose days differ in what the loop does with them:
\* nothing to read, one row, a skipped card before a row, a card that
\* raises, and two headings that share a container.
DayPages ==
  { <<>>,
    <<H2(1, MensaA), Div(1, <<BaseCard>>)>>,
    <<H2(1, MensaA), Div(1, <<NoImageCard, BaseCard>>)>>,
    <<H2(1, MensaA), Div(1, <<BlankSrcsetCard>>)>>,
    <<H2(1, MensaA), H2(2, MensaB), Div(2, <<BaseCard>>)>> }

OutDirs == {<<"images">>, <<"my", ",", "images">>}

\* A file left by an earlier run: the image of the example card.
OldPath(dir, dt) ==
  FilePath(dir, dt, FileName(MensaName(H2(1, MensaA)), DishType(BaseCard),
                             UrlJoin(JpgUrl)))

RECURSIVE OldFiles(_, _)
OldFiles(dir, days) ==
  IF days = {} THEN <<>>
  ELSE LET dt == CHOOSE x \in days : TRUE
       IN (OldPath(dir, dt) :> [state |-> "old", run |-> 0, day |-> dt]) @@ OldFiles(dir, days \ {dt})

IdleScrape ==
  /\ out_dir = <<"images">>
  /\ pc = "idle"
  /\ launched = FALSE
  /\ closeCalls = 0
  /\ day = 0 /\ hi = 0 /\ ci = 0
  /\ rows = <<>>
  /\ files = <<>> /\ dirs = {}
  /\ site = <<>>
  /\ run = 1
  /\ filesAtStart = <<>>
  /\ clean = TRUE /\ prevClean = FALSE
  /\ visited = <<>> /\ skipped = {} /\ log = <<>>

InitDateRange ==
  /\ start \in 1..MaxDate
  /\ stop \in 1..MaxDate
  /\ step = 0 /\ d = 0
  /\ genpc = "new"
  /\ yielded = <<>>
  /\ IdleScrape

Resume == GenNext /\ UNCHANGED scrapeVars

NextDateRange == Resume

SpecDateRange == InitDateRange /\ [][NextDateRange]_vars

\* C1: daterange(start, stop) yields |stop - start| + 1 dates, the first is
\* start, the last is stop, consecutive dates differ by one day (ascending
\* when start <= stop, descending otherwise), stop is yielded once and last,
\* and the generator ends right after yielding stop.
C1_DateRange ==
  /\ Len(yielded) >= 1 => yielded[1] = start
  /\ \A i \in 1..(Len(yielded) - 1) :
       /\ yielded[i + 1] - yielded[i] = (IF start <= stop THEN 1 ELSE -1)
       /\ yielded[i] # stop
  /\ Len(yielded) <= Abs(stop - start) + 1
  /\ genpc # "done" => Len(yielded) < Abs(stop - start) + 1
                         \/ yielded[Len(yielded)] = stop
  /\ genpc = "done" =>
       /\ Len(yielded) = Abs(stop - start) + 1
       /\ yielded[Len(yielded)] = stop
       /\ yielded = DateSeq(start, stop)

C1_Witness ==
  /\ genpc = "done"
  /\ start > stop
  /\ Len(yielded) >= 3

\* ------------------------------------------------------------------ scrape
InitLocals ==
  /\ step = 0 /\ d = 0
  /\ genpc = "new"
  /\ yielded = <<>>
  /\ pc = "start"
  /\ launched = FALSE
  /\ closeCalls = 0
  /\ day = 0 /\ hi = 0 /\ ci = 0
  /\ rows = <<>>
  /\ filesAtStart = files
  /\ run = 1
  /\ clean = TRUE /\ prevClean = FALSE
  /\ visited = <<>> /\ skipped = {} /\ log = <<>>

\* Any range, output directory and set of days whose example image is
\* already on disk; the site's pages are met as the days are loaded.
Init ==
  /\ start \in 1..MaxDay
  /\ stop \in 1..MaxDay
  /\ out_dir \in OutDirs
  /\ \E pre \in SUBSET (1..MaxDay) :
       /\ files = OldFiles(out_dir, pre)
       /\ dirs = pre
  /\ site = <<>>
  /\ InitLocals

\* Any range over a site whose page of every day is given, and any set of
\* days whose example image is already on disk.
InitDays ==
  /\ start \in 1..MaxDay
  /\ stop \in 1..MaxDay
  /\ out_dir = <<"images">>
  /\ \E pre \in SUBSET (1..MaxDay) :
       /\ files = OldFiles(out_dir, pre)
       /\ dirs = pre
  /\ site \in [1..MaxDay -> DayPages]
  /\ InitLocals

\* The locals of the loop body, from the loop variables.
Soup == site[day]
CurHeading == FindHeadings(Soup)[hi]
CurContainer == FindNextDiv(Soup, CurHeading)
CurCards == FindCards(Soup[CurContainer])
CurCard == CurCards[ci]
CurMensa == MensaName(Soup[CurHeading])
CurUrl == UrlJoin(ImgUrl(CurCard).url)
CurPath ==
  FilePath(out_dir, day, FileName(CurMensa, DishType(CurCard), CurUrl))

CurRow ==
  << Description(DescLines(CurCard)), <<"no">>, <<"no">>,
     DishType(CurCard), Diet(CurCard), CurMensa, CurPath >>

\* fpath.exists()
ExistsNever(path) == FALSE

Exists(path) == path \in DOMAIN files

AtCard == pc = "card" /\ ci <= Len(CurCards)

\* Steps 1 to 4 of a card: what they decide.
HasDescription == CurCard.p.has /\ DescLines(CurCard) # <<>>
ReachesImage == AtCard /\ HasDescription
ReachesDownload ==
  ReachesImage /\ ~ImgUrl(CurCard).raises /\ ImgUrl(CurCard).url # <<>>

Event(fetched, row) ==
  [day |-> day, h |-> CurHeading, node |-> CurContainer, card |-> ci,
   mensa |-> CurMensa, dish_type |-> DishType(CurCard), path |-> CurPath,
   fetched |-> fetched, row |-> row]

\* p.chromium.launch() and browser.new_page()
Launch ==
  /\ pc = "start"
  /\ \/ /\ launched' = TRUE
        /\ pc' = "loop"
        /\ UNCHANGED clean
     \/ /\ pc' = "raised"
        /\ clean' = FALSE
        /\ UNCHANGED launched
  /\ UNCHANGED <<genVars, out_dir, closeCalls, day, hi, ci, rows, files, dirs,
                 site, run, filesAtStart, prevClean, visited, skipped, log>>

\* for day in daterange(start, stop): the next date, or the end of the loop
ForDay ==
  /\ pc = "loop"
  /\ GenNext
  /\ IF genpc' = "done"
     THEN /\ pc' = "close"
          /\ UNCHANGED <<day, visited>>
     ELSE /\ pc' = "goto"
          /\ day' = d'
          /\ visited' = Append(visited, d')
  /\ UNCHANGED <<out_dir, launched, closeCalls, hi, ci, rows, files, dirs,
                 site, run, filesAtStart, clean, prevClean, skipped, log>>

\* page.goto(url) returns
GotoOk ==
  /\ pc = "goto"
  /\ pc' = "content"
  /\ UNCHANGED <<genVars, out_dir, launched, closeCalls, day, hi, ci, rows,
                 files, dirs, site, run, filesAtStart, clean, prevClean,
                 visited, skipped, log>>

GotoFailBreak ==
  /\ pc = "goto"
  /\ pc' = "close"
  /\ skipped' = skipped \cup {day}
  /\ clean' = FALSE
  /\ UNCHANGED <<genVars, out_dir, launched, closeCalls, day, hi, ci, rows,
                 files, dirs, site, run, filesAtStart, prevClean, visited, log>>

\* page.goto(url) raises: except Exception: continue
GotoFail ==
  /\ pc = "goto"
  /\ pc' = "loop"
  /\ skipped' = skipped \cup {day}
  /\ clean' = FALSE
  /\ UNCHANGED <<genVars, out_dir, launched, closeCalls, day, hi, ci, rows,
                 files, dirs, site, run, filesAtStart, prevClean, visited, log>>

\* page.wait_for_timeout(800), page.content(), BeautifulSoup(...): the page
\* of the day, the same one whenever the day is loaded again
Content ==
  /\ pc = "content"
  /\ IF day \in DOMAIN site
     THEN site' = site
     ELSE \E page \in Pages : site' = (day :> page) @@ site
  /\ hi' = 1
  /\ pc' = "heading"
  /\ UNCHANGED <<genVars, out_dir, launched, closeCalls, day, ci, rows, files,
                 dirs, run, filesAtStart, clean, prevClean, visited, skipped,
                 log>>

\* page.wait_for_timeout() or page.content() raises: nothing catches it
ContentError ==
  /\ pc = "content"
  /\ pc' = "raised"
  /\ clean' = FALSE
  /\ UNCHANGED <<genVars, out_dir, launched, closeCalls, day, hi, ci, rows,
                 files, dirs, site, run, filesAtStart, prevClean, visited,
                 skipped, log>>

\* for h2 in soup.find_all(...): the next heading and its container
Heading ==
  /\ pc = "heading"
  /\ IF hi > Len(FindHeadings(Soup))
     THEN pc' = "loop" /\ UNCHANGED <<hi, ci>>
     ELSE IF CurContainer = 0
          THEN hi' = hi + 1 /\ UNCHANGED <<pc, ci>>
          ELSE pc' = "card" /\ ci' = 1 /\ UNCHANGED hi
  /\ UNCHANGED <<genVars, out_dir, launched, closeCalls, day, rows, files,
                 dirs, site, run, filesAtStart, clean, prevClean, visited,
                 skipped, log>>

\* for card in container.find_all(...): no card is left
CardsDone ==
  /\ pc = "card"
  /\ ci > Len(CurCards)
  /\ hi' = hi + 1
  /\ pc' = "heading"
  /\ UNCHANGED <<genVars, out_dir, launched, closeCalls, day, ci, rows, files,
                 dirs, site, run, filesAtStart, clean, prevClean, visited,
                 skipped, log>>

\* the card has no description block, no line left, or no image URL: continue
CardSkip ==
  /\ AtCard
  /\ \/ ~HasDescription
     \/ HasDescription /\ ~ImgUrl(CurCard).raises /\ ImgUrl(CurCard).url = <<>>
  /\ ci' = ci + 1
  /\ UNCHANGED <<genVars, out_dir, pc, launched, closeCalls, day, hi, rows,
                 files, dirs, site, run, filesAtStart, clean, prevClean,
                 visited, skipped, log>>

\* img_tag.get("srcset", "").split(",")[0].split()[0] raises IndexError
CardSrcsetError ==
  /\ ReachesImage
  /\ ImgUrl(CurCard).raises
  /\ pc' = "raised"
  /\ clean' = FALSE
  /\ UNCHANGED <<genVars, out_dir, launched, closeCalls, day, hi, ci, rows,
                 files, dirs, site, run, filesAtStart, prevClean, visited,
                 skipped, log>>

\* day_dir.mkdir(parents=True, exist_ok=True) raises (the folder is missing
\* and cannot be made)
CardMkdirError ==
  /\ ReachesDownload
  /\ day \notin dirs
  /\ pc' = "raised"
  /\ clean' = FALSE
  /\ UNCHANGED <<genVars, out_dir, launched, closeCalls, day, hi, ci, rows,
                 files, dirs, site, run, filesAtStart, prevClean, visited,
                 skipped, log>>

\* the file is there: no request, the row is appended
CardCached ==
  /\ ReachesDownload
  /\ Exists(CurPath)
  /\ dirs' = dirs \cup {day}
  /\ rows' = Append(rows, CurRow)
  /\ log' = Append(log, Event(FALSE, TRUE))
  /\ ci' = ci + 1
  /\ UNCHANGED <<genVars, out_dir, pc, launched, closeCalls, day, hi, files,
                 site, run, filesAtStart, clean, prevClean, visited, skipped>>

\* requests.get() and write_bytes() succeed, the row is appended
CardFetched ==
  /\ ReachesDownload
  /\ ~Exists(CurPath)
  /\ dirs' = dirs \cup {day}
  /\ files' = (CurPath :> [state |-> "full", run |-> run, day |-> day]) @@ files
  /\ rows' = Append(rows, CurRow)
  /\ log' = Append(log, Event(TRUE, TRUE))
  /\ ci' = ci + 1
  /\ UNCHANGED <<genVars, out_dir, pc, launched, closeCalls, day, hi, site,
                 run, filesAtStart, clean, prevClean, visited, skipped>>

\* requests.get() or raise_for_status() raises: except Exception: continue
CardGetFails ==
  /\ ReachesDownload
  /\ ~Exists(CurPath)
  /\ dirs' = dirs \cup {day}
  /\ log' = Append(log, Event(TRUE, FALSE))
  /\ clean' = FALSE
  /\ ci' = ci + 1
  /\ UNCHANGED <<genVars, out_dir, pc, launched, closeCalls, day, hi, rows,
                 files, site, run, filesAtStart, prevClean, visited, skipped>>

\* write_bytes() raises, before the file is opened for writing or after
\* (the file is then left with a part of the body): except Exception: continue
CardWriteFails ==
  /\ ReachesDownload
  /\ ~Exists(CurPath)
  /\ dirs' = dirs \cup {day}
  /\ \/ files' = files
     \/ files' = (CurPath :> [state |-> "partial", run |-> run, day |-> day]) @@ files
  /\ log' = Append(log, Event(TRUE, FALSE))
  /\ clean' = FALSE
  /\ ci' = ci + 1
  /\ UNCHANGED <<genVars, out_dir, pc, launched, closeCalls, day, hi, rows,
                 site, run, filesAtStart, prevClean, visited, skipped>>

\* await browser.close(); return rows
Close ==
  /\ pc = "close"
  /\ closeCalls' = closeCalls + 1
  /\ pc' = "returned"
  /\ UNCHANGED <<genVars, out_dir, launched, day, hi, ci, rows, files, dirs,
                 site, run, filesAtStart, clean, prevClean, visited, skipped,
                 log>>

\* The program is started again with the same arguments.
Rerun ==
  /\ pc \in {"returned", "raised"}
  /\ run < MaxRuns
  /\ run' = run + 1
  /\ prevClean' = (clean /\ pc = "returned")
  /\ clean' = TRUE
  /\ filesAtStart' = files
  /\ pc' = "start"
  /\ launched' = FALSE
  /\ closeCalls' = 0
  /\ step' = 0 /\ d' = 0 /\ genpc' = "new" /\ yielded' = <<>>
  /\ day' = 0 /\ hi' = 0 /\ ci' = 0
  /\ rows' = <<>>
  /\ visited' = <<>> /\ skipped' = {} /\ log' = <<>>
  /\ UNCHANGED <<start, stop, out_dir, files, dirs, site>>

Next ==
  \/ Launch
  \/ ForDay
  \/ GotoOk
  \/ GotoFail
  \/ Content
  \/ ContentError
  \/ Heading
  \/ CardsDone
  \/ CardSkip
  \/ CardSrcsetError
  \/ CardMkdirError
  \/ CardCached
  \/ CardFetched
  \/ CardGetFails
  \/ CardWriteFails
  \/ Close

Spec == Init /\ [][Next]_vars

SpecDays == InitDays /\ [][Next]_vars

\* Runs one after the other against the same output directory, each over
\* the same one-day range.
InitRerun == Init /\ start = stop

NextRerun == Next \/ Rerun

SpecRerun == InitRerun /\ [][NextRerun]_vars

\* ------------------------------------------------------------------ claims
RowEvents == SelectSeq(log, LAMBDA e : e.row)

\* C2: every row has exactly 7 fields, and none of them, the normalised
\* description and the image path included, contains a comma or a semicolon.
C2_SevenCleanFields ==
  \A i \in DOMAIN rows :
    /\ Len(rows[i]) = 7
    /\ \A k \in 1..7 : ~HasDelim(rows[i][k])

\* C3: every row has a non-empty description.
C3_DescriptionNotEmpty == \A i \in DOMAIN rows : rows[i][1] # <<>>

\* C4: within a run, the cards of one day with the same (mensa, dishType)
\* cause at most one image request, and their rows carry the same imagePath.
C4_OneFetchPerDish ==
  \A i, j \in DOMAIN log :
    (/\ i < j
     /\ log[i].day = log[j].day
     /\ log[i].mensa = log[j].mensa
     /\ log[i].dish_type = log[j].dish_type)
    => /\ ~(log[i].fetched /\ log[j].fetched)
       /\ (log[i].row /\ log[j].row) => log[i].path = log[j].path

\* C5: no failure while a day or a card is processed aborts scrape(): once
\* the browser is launched, no exception leaves the function.
C5_NoAbort == pc = "raised" => ~launched

\* C6: a failed page.goto adds no row and no file for that day, leaves the
\* rows, files and folders as they were, and the loop goes on with the next
\* day: the days navigated to are always a prefix of the range, and all of
\* it when scrape() returns.
C6_GotoFailureSkipsDay ==
  /\ [](\A i \in DOMAIN log : log[i].day \notin skipped)
  /\ [](\A q \in DOMAIN files : files[q].run = run => files[q].day \notin skipped)
  /\ [](/\ Len(visited) <= Len(DateSeq(start, stop))
        /\ visited = SubSeq(DateSeq(start, stop), 1, Len(visited)))
  /\ [](pc = "returned" => visited = DateSeq(start, stop))
  /\ [][(pc = "goto" /\ day \in skipped')
          => (rows' = rows /\ files' = files /\ dirs' = dirs /\ pc' = "loop")]_vars

C6_Witness ==
  /\ pc = "returned"
  /\ Len(visited) = 2
  /\ visited[1] \in skipped
  /\ visited[2] \notin skipped
  /\ rows # <<>>

\* C7: a file that exists when scrape() starts is never requested and never
\* changed during the run, and every card that maps to it gets its row with
\* that path; a run after a run without any failure requests nothing.
C7_ExistingFilesReused ==
  /\ \A i \in DOMAIN log :
       log[i].path \in DOMAIN filesAtStart => ~log[i].fetched /\ log[i].row
  /\ \A q \in DOMAIN filesAtStart :
       q \in DOMAIN files /\ files[q] = filesAtStart[q]
  /\ Len(RowEvents) = Len(rows)
  /\ \A i \in DOMAIN rows : rows[i][7] = RowEvents[i].path
  /\ (run > 1 /\ prevClean) => \A i \in DOMAIN log : ~log[i].fetched

C7_Witness ==
  /\ run = 2
  /\ prevClean
  /\ pc = "returned"
  /\ \E i \in DOMAIN rows :
       /\ rows[i][7] \in DOMAIN filesAtStart
       /\ filesAtStart[rows[i][7]].run = 1

\* C8: a failed download leaves no file behind, so no partial file exists
\* and every imagePath of a row names a file with a complete body.
C8_NoPartialFile ==
  /\ \A q \in DOMAIN files : files[q].state # "partial"
  /\ \A i \in DOMAIN rows :
       rows[i][7] \in DOMAIN files /\ files[rows[i][7]].state # "partial"

\* C9: when scrape() is left after the browser was launched, by return or
\* by an exception, browser.close() has been executed exactly once.
C9_ClosedOnEveryExit ==
  (pc \in {"returned", "raised"} /\ launched) => closeCalls = 1

\* C10: a row's cafeteria is the heading whose next sibling container holds
\* the card (a heading without one yields nothing), and one card yields at
\* most one row per day.
C10_HeadingOwnsContainer ==
  /\ \A i \in DOMAIN log :
       log[i].row => NextSiblingDiv(site[log[i].day], log[i].h) = log[i].node
  /\ \A i, j \in DOMAIN log :
       (i < j /\ log[i].row /\ log[j].row /\ log[i].day = log[j].day)
       => <<log[i].node, log[i].card>> # <<log[j].node, log[j].card>>

====
